---- MODULE Spec2Model ----
(***************************************************************************)
(* Price monitor of src/price-monitor/price_monitor.py: the PriceMonitor   *)
(* object (products, history, history file), the check_all cycle with its  *)
(* await points, the scrape_price outcomes, _parse_price and               *)
(* _check_alert_conditions.                                                *)
(*                                                                         *)
(* Numbers.  Prices are Python floats; the model keeps them as integer     *)
(* hundredths (24.99 is 2499).  change_percent is kept as an exact         *)
(* fraction <<numerator, denominator>> with a positive denominator, and    *)
(* every comparison on it is made by cross-multiplication, so the model    *)
(* compares exactly where the code compares rounded floats.                *)
(* Texts are sequences of one-character strings; characters outside ASCII  *)
(* are written by their code point ("U20AC" is the euro sign).             *)
(***************************************************************************)
EXTENDS Integers, Sequences, FiniteSets, TLC

VARIABLES
    products,      \* self.products: the list of Product entries
    history,       \* self.history: key -> list of record dicts
    history_file,  \* content of price_history.json, or None when there is no file
    pc,            \* per check_all call: "idle", "scraping", "closing", "sleeping"
    idx,           \* per check_all call: position of the for loop in products
    alerts,        \* per check_all call: the local list alerts
    result,        \* per check_all call: how the last call ended and what it returned
    pending,       \* per check_all call: what scrape_price holds while the browser closes
    started,       \* per check_all call: the clock when the call began (history variable)
    clock,         \* datetime.now(): one tick per observation attempt
    catalogue,     \* the entries the operator is going to add_product, in order
    active,        \* the check_all calls that exist in this run
    last,          \* the last finished product step (history variable)
    crossed,       \* <<key, target>> pairs: a target_reached alert was raised and
                   \* no record above the target was appended since (history variable)
    probe          \* the last direct call of _parse_price or get_price_history

vars == <<products, history, history_file, pc, idx, alerts, result, pending,
          started, clock, catalogue, active, last, crossed, probe>>

\* Optional values: None is the empty tuple, a present value v is <<v>>.
None == <<>>
Some(v) == <<v>>
Val(o) == o[1]

\* alert_type = None
NoType == "None"

\* Number of observation attempts after which no new cycle is started.
MaxObs == 3

\* self.history[key][-100:]
HistoryCap == 100

Runners == {"r1", "r2"}

(***************************************************************************)
(* Python helpers                                                          *)
(***************************************************************************)

\* bool(x) of an Optional[float]: None and 0.0 are false.
Truthy(x) == x # None /\ Val(x) # 0

\* dict.get(key, [])
DictGet(h, key) == IF key \in DOMAIN h THEN h[key] ELSE <<>>

\* Mutant of LastN: s[:n], the head kept instead of the tail.
LastNHead(s, n) == IF Len(s) <= n THEN s ELSE SubSeq(s, 1, n)

\* s[-n:]
LastN(s, n) == IF Len(s) <= n THEN s ELSE SubSeq(s, Len(s) - n + 1, Len(s))

\* Exact fractions <<num, den>>, den > 0.
FracLeq(a, b) == a[1] * b[2] <= b[1] * a[2]
FracLt(a, b) == a[1] * b[2] < b[1] * a[2]
FracAbs(a) == IF a[1] < 0 THEN <<-a[1], a[2]>> ELSE a
FracOfInt(n) == <<n, 1>>

(***************************************************************************)
(* _parse_price                                                            *)
(***************************************************************************)

Digits == {"0", "1", "2", "3", "4", "5", "6", "7", "8", "9"}

DigitVal(c) ==
    CASE c = "0" -> 0 [] c = "1" -> 1 [] c = "2" -> 2 [] c = "3" -> 3
      [] c = "4" -> 4 [] c = "5" -> 5 [] c = "6" -> 6 [] c = "7" -> 7
      [] c = "8" -> 8 [] c = "9" -> 9

Whitespace == {" "}

\* The three string literals of lines 162, 164 and 166, character by character.
\* The source file holds them as the Latin-1/CP1252 misreadings of the UTF-8
\* bytes of the euro, pound and yen signs.
EurLiteral == <<"U00E2", "U201A", "U00AC">>
GbpLiteral == <<"U00C2", "U00A3">>
JpyLiteral == <<"U00C2", "U00A5">>

\* lit in text
Contains(text, lit) ==
    \E i \in 1..(Len(text) - Len(lit) + 1) : SubSeq(text, i, i + Len(lit) - 1) = lit

\* text.strip()
RECURSIVE Strip(_)
Strip(text) ==
    IF text = <<>> THEN text
    ELSE IF Head(text) \in Whitespace THEN Strip(Tail(text))
    ELSE IF text[Len(text)] \in Whitespace THEN Strip(SubSeq(text, 1, Len(text) - 1))
    ELSE text

\* text.replace(',', '')
RemoveCommas(text) == SelectSeq(text, LAMBDA c : c # ",")

\* The currency chain of lines 161-167.
DetectCurrency(text) ==
    IF Contains(text, EurLiteral) THEN "EUR"
    ELSE IF Contains(text, GbpLiteral) THEN "GBP"
    ELSE IF Contains(text, JpyLiteral) THEN "JPY"
    ELSE "USD"

\* Length of the longest run of characters of class cls starting at t[i].
RECURSIVE RunLen(_, _, _)
RunLen(t, i, cls) ==
    IF i > Len(t) \/ t[i] \notin cls THEN 0 ELSE 1 + RunLen(t, i + 1, cls)

\* Mutant of RegexSearch: the pattern is [\d,]+ alone.
RegexSearchIntOnly(t) ==
    LET cls == Digits \cup {","}
        starts == {i \in 1..Len(t) : t[i] \in cls}
    IN  IF starts = {} THEN None
        ELSE LET i == CHOOSE x \in starts : \A y \in starts : x <= y
             IN  <<i, i + RunLen(t, i, cls) - 1>>

\* re.search(r'[\d,]+\.?\d*', t): the leftmost, greedy match, as the pair
\* <<first, last>> of positions in t, or None.
RegexSearch(t) ==
    LET cls == Digits \cup {","}
        starts == {i \in 1..Len(t) : t[i] \in cls}
    IN  IF starts = {} THEN None
        ELSE LET i == CHOOSE x \in starts : \A y \in starts : x <= y
                 n == RunLen(t, i, cls)
                 dot == IF i + n <= Len(t) /\ t[i + n] = "." THEN 1 ELSE 0
                 m == RunLen(t, i + n + dot, Digits)
             IN  <<i, i + n + dot + m - 1>>

\* Value of a digit string.
RECURSIVE DecValue(_)
DecValue(s) ==
    IF s = <<>> THEN 0
    ELSE DecValue(SubSeq(s, 1, Len(s) - 1)) * 10 + DigitVal(s[Len(s)])

\* float(token) in hundredths, or None for ValueError (no digit before the
\* point).  Fraction digits beyond the second are below the model's resolution.
ParseFloat(token) ==
    LET n == RunLen(token, 1, Digits)
        frac == IF n < Len(token) THEN SubSeq(token, n + 2, Len(token)) ELSE <<>>
        f1 == IF Len(frac) >= 1 THEN DigitVal(frac[1]) ELSE 0
        f2 == IF Len(frac) >= 2 THEN DigitVal(frac[2]) ELSE 0
    IN  IF n = 0 THEN None
        ELSE Some(DecValue(SubSeq(token, 1, n)) * 100 + f1 * 10 + f2)

\* _parse_price(text) -> <<price, currency>>
ParsePrice(text) ==
    LET stripped == Strip(text)
        currency == DetectCurrency(stripped)
        t == RemoveCommas(stripped)
        match == RegexSearch(t)
    IN  IF match = None THEN <<None, currency>>
        ELSE <<ParseFloat(RemoveCommas(SubSeq(t, match[1], match[2]))), currency>>

(***************************************************************************)
(* Product, PriceRecord, PriceAlert                                        *)
(***************************************************************************)

\* Product(url, name, price_selector, target_price, alert_on_any_change,
\* alert_threshold_percent); price_selector is only handed to the browser.
Product(url, name, target, any, thr) ==
    [url |-> url, name |-> name, target_price |-> target,
     alert_on_any_change |-> any, alert_threshold_percent |-> thr]

\* asdict(PriceRecord(url, name, price, currency, timestamp))
PriceRecord(url, name, price, currency, ts) ==
    [url |-> url, name |-> name, price |-> price, currency |-> currency,
     timestamp |-> ts]

PriceAlert(product, url, old, new, change, type, ts) ==
    [product |-> product, url |-> url, old_price |-> old, new_price |-> new,
     change_percent |-> change, alert_type |-> type, timestamp |-> ts]

\* _get_product_key: hashlib.md5(url.encode()).hexdigest()[:12], a fixed
\* function of the URL alone, written out for the URLs of the model.
UrlA == "https://www.amazon.com/dp/B0EXAMPLE"
UrlB == "https://shop.example/b"
UrlC == "https://shop.example/c"   \* a page no product entry names

ProductKey(url) ==
    CASE url = UrlA -> "c0925bb0d331"
      [] url = UrlB -> "674107439695"
      [] url = UrlC -> "f2718aab4690"

(***************************************************************************)
(* _check_alert_conditions                                                 *)
(***************************************************************************)

\* Mutant of ChangePercent: the test of line 195 is missing.
ChangePercentNoGuard(current_price, last_price) ==
    <<(current_price - last_price) * 100, last_price>>

\* Lines 194-198.
ChangePercent(current_price, last_price) ==
    IF last_price > 0
    THEN <<(current_price - last_price) * 100, last_price>>
    ELSE FracOfInt(0)

\* abs(change_percent) > 0.01
AboveEpsilon(change_percent) == FracLt(<<1, 100>>, FracAbs(change_percent))

\* Mutant of AlertType: the drop rule is tested before the target rule.
AlertTypeDropFirst(product, current_price, last_price, change_percent) ==
    IF FracLeq(change_percent, FracOfInt(-product.alert_threshold_percent))
    THEN "drop"
    ELSE IF Truthy(product.target_price) /\ current_price <= Val(product.target_price)
    THEN IF last_price > Val(product.target_price) THEN "target_reached" ELSE NoType
    ELSE IF product.alert_on_any_change /\ AboveEpsilon(change_percent)
    THEN "change"
    ELSE NoType

\* Mutant of AlertType: the test of line 204 (last_price > target) is missing.
AlertTypeNoCrossing(product, current_price, last_price, change_percent) ==
    IF Truthy(product.target_price) /\ current_price <= Val(product.target_price)
    THEN "target_reached"
    ELSE IF FracLeq(change_percent, FracOfInt(-product.alert_threshold_percent))
    THEN "drop"
    ELSE IF product.alert_on_any_change /\ AboveEpsilon(change_percent)
    THEN "change"
    ELSE NoType

\* Mutant of AlertType: the minus sign of line 208 is missing.
AlertTypeNoMinus(product, current_price, last_price, change_percent) ==
    IF Truthy(product.target_price) /\ current_price <= Val(product.target_price)
    THEN IF last_price > Val(product.target_price) THEN "target_reached" ELSE NoType
    ELSE IF FracLeq(change_percent, FracOfInt(product.alert_threshold_percent))
    THEN "drop"
    ELSE IF product.alert_on_any_change /\ AboveEpsilon(change_percent)
    THEN "change"
    ELSE NoType

\* Lines 200-213: the if / elif / elif chain.
AlertType(product, current_price, last_price, change_percent) ==
    IF Truthy(product.target_price) /\ current_price <= Val(product.target_price)
    THEN IF last_price > Val(product.target_price) THEN "target_reached" ELSE NoType
    ELSE IF FracLeq(change_percent, FracOfInt(-product.alert_threshold_percent))
    THEN "drop"
    ELSE IF product.alert_on_any_change /\ AboveEpsilon(change_percent)
    THEN "change"
    ELSE NoType

\* Mutant of CheckAlertConditions: with no history, a price already at or
\* below the target raises target_reached.
CheckAlertConditionsFirst(h, product, current) ==
    LET hist == DictGet(h, ProductKey(product.url))
        last_price == IF hist = <<>> THEN current.price ELSE hist[Len(hist)].price
        change_percent == ChangePercent(current.price, last_price)
        alert_type ==
            IF hist = <<>>
            THEN IF Truthy(product.target_price)
                    /\ current.price <= Val(product.target_price)
                 THEN "target_reached" ELSE NoType
            ELSE AlertType(product, current.price, last_price, change_percent)
    IN  IF alert_type # NoType
        THEN Some(PriceAlert(product.name, product.url, last_price, current.price,
                             change_percent, alert_type, current.timestamp))
        ELSE None

\* Mutant of CheckAlertConditions: old_price and new_price are exchanged.
CheckAlertConditionsSwapped(h, product, current) ==
    LET hist == DictGet(h, ProductKey(product.url))
    IN  IF hist = <<>> THEN None
        ELSE LET last_price == hist[Len(hist)].price
                 change_percent == ChangePercent(current.price, last_price)
                 alert_type == AlertType(product, current.price, last_price,
                                         change_percent)
             IN  IF alert_type # NoType
                 THEN Some(PriceAlert(product.name, product.url, current.price,
                                      last_price, change_percent, alert_type,
                                      current.timestamp))
                 ELSE None

\* _check_alert_conditions(product, current) against the history mapping h.
CheckAlertConditions(h, product, current) ==
    LET hist == DictGet(h, ProductKey(product.url))
    IN  IF hist = <<>> THEN None
        ELSE LET last_price == hist[Len(hist)].price
                 change_percent == ChangePercent(current.price, last_price)
                 alert_type == AlertType(product, current.price, last_price,
                                         change_percent)
             IN  IF alert_type # NoType
                 THEN Some(PriceAlert(product.name, product.url, last_price,
                                      current.price, change_percent, alert_type,
                                      current.timestamp))
                 ELSE None

(***************************************************************************)
(* History store: lines 242-249 of check_all, _load_history, _save_history *)
(***************************************************************************)

\* Mutant of AppendRecord: line 249 is missing.
AppendRecordNoCap(h, key, rec) ==
    [k \in DOMAIN h \cup {key} |->
        IF k = key THEN Append(DictGet(h, key), rec) ELSE h[k]]

\* Mutant of AppendRecord: a full history is started anew with the record.
AppendRecordFresh(h, key, rec) ==
    [k \in DOMAIN h \cup {key} |->
        IF k = key
        THEN (IF Len(DictGet(h, key)) >= HistoryCap THEN <<rec>>
              ELSE Append(DictGet(h, key), rec))
        ELSE h[k]]

\* self.history[key] = [] if absent; append; keep the last 100.
AppendRecord(h, key, rec) ==
    [k \in DOMAIN h \cup {key} |->
        IF k = key THEN LastN(Append(DictGet(h, key), rec), HistoryCap) ELSE h[k]]

EmptyHistory == [k \in {} |-> <<>>]

\* The keys of a dict as a list.
RECURSIVE KeyList(_)
KeyList(keys) ==
    IF keys = {} THEN <<>>
    ELSE LET k == CHOOSE x \in keys : TRUE IN <<k>> \o KeyList(keys \ {k})

\* json.dump of Dict[str, List[Dict]]: a JSON object, modelled as the list of
\* its members <<key, array>>.  Strings and floats are written so that
\* json.load reads back equal values, so the arrays are kept as they are.
JsonDump(h) == [i \in 1..Cardinality(DOMAIN h) |-> <<KeyList(DOMAIN h)[i], h[KeyList(DOMAIN h)[i]]>>]

\* json.load of a JSON object: a dict; of members with the same key the last
\* one stays.
JsonLoad(members) ==
    [k \in {members[i][1] : i \in DOMAIN members} |->
        LET at == CHOOSE i \in DOMAIN members :
                     /\ members[i][1] = k
                     /\ \A j \in DOMAIN members : members[j][1] = k => j <= i
        IN  members[at][2]]

\* _load_history
LoadHistory(file) == IF file = None THEN EmptyHistory ELSE JsonLoad(Val(file))

\* Mutant of SaveHistory: the newest record of every sequence is left out.
SaveHistoryStale(h) ==
    Some(JsonDump([k \in DOMAIN h |-> SubSeq(h[k], 1, Len(h[k]) - 1)]))

\* _save_history: json.dump(self.history)
SaveHistory(h) == Some(JsonDump(h))

(***************************************************************************)
(* The environment: what the operator configures and what the pages show   *)
(***************************************************************************)

TargetA == Some(2500)   \* target_price=25.00, as in demo()
TargetZero == Some(0)   \* target_price=0.0

ProductT    == Product(UrlA, "Example Product", TargetA, FALSE, 5)
ProductTAny == Product(UrlA, "Example Product", TargetA, TRUE, 5)
ProductDrop == Product(UrlA, "Widget", None, FALSE, 5)
ProductAny  == Product(UrlA, "Widget", None, TRUE, 50)
ProductB    == Product(UrlB, "Gadget", TargetZero, TRUE, 5)

\* The lists of add_product calls the operator may make, in order.
Catalogues ==
    { <<ProductT, ProductB>>, <<ProductDrop, ProductAny>>, <<ProductTAny>>,
      <<ProductAny, ProductT>> }

\* element.text_content() of the price element of each page.
TextNoNumber == <<"N", "/", "A">>
TextZero     == <<"$", "0", ".", "0", "0">>

PageTexts(url) ==
    IF url = UrlA
    THEN { <<" ", "$", "2", "9", ".", "9", "9", " ">>,
           <<"U00E2", "U201A", "U00AC", "2", "4", ".", "9", "9">>,
           <<"$", "2", "0", ".", "0", "0">>,
           TextNoNumber, TextZero }
    ELSE { <<"$", "1", "0", ",", "0", "0", "0", ".", "0", "0">>,
           <<"$", "1", "0", ",", "0", "0", "0", ".", "0", "1">>,
           <<"U20AC", "9", ",", "0", "0", "0">>,
           TextNoNumber, TextZero }

\* A history file left by earlier cycles over the first page: n records with
\* alternating prices, the oldest first, all stamped before this run.
StoredRecord(i, n) ==
    PriceRecord(UrlA, "Widget", IF i % 2 = 1 THEN 2999 ELSE 2499, "USD", i - n)

StoredFile(n) ==
    IF n = 0 THEN None
    ELSE SaveHistory([k \in {ProductKey(UrlA)} |-> [i \in 1..n |-> StoredRecord(i, n)]])

StoredLengths == {0, HistoryCap - 1, HistoryCap}

(***************************************************************************)
(* State machine                                                           *)
(***************************************************************************)

\* last: who made the step, how scrape_price ended ("recorded", "skipped",
\* "raised"), the product, the text of the price element (None without one),
\* the product's history before the step, the record and the alert.
NoStep ==
    [runner |-> "", outcome |-> "none", product |-> None, text |-> None,
     prior |-> <<>>, record |-> None, alert |-> None]

Step(r, outcome, product, text, prior, record, alert) ==
    [runner |-> r, outcome |-> outcome, product |-> Some(product), text |-> text,
     prior |-> prior, record |-> record, alert |-> alert]

\* crossed after a product's step.
CrossedAfter(c, product, record, alert) ==
    IF record = None THEN c
    ELSE LET key == ProductKey(product.url)
         IN  {x \in c : x[1] # key \/ Val(record).price <= x[2]}
             \cup (IF alert # None /\ Val(alert).alert_type = "target_reached"
                   THEN {<<key, Val(product.target_price)>>} ELSE {})

\* result: "none" while a call runs or before the first one, "returned" with
\* the returned list, "raised" when an exception left check_all.
NoResult == [status |-> "none", value |-> <<>>]
Returned(list) == [status |-> "returned", value |-> list]
Raised == [status |-> "raised", value |-> <<>>]

\* pending: the text of the price element and the PriceRecord (or None) that
\* scrape_price is about to return.
NoPending == [text |-> None, record |-> None]

\* probe: a direct call and its result.
NoProbe ==
    [op |-> "none", text |-> <<>>, url |-> "", price |-> None, currency |-> "",
     product |-> None, record |-> None, value |-> <<>>]

\* PriceMonitor.__init__ at time now on a data directory whose history file
\* is file; list is what the operator will add, callers the check_all callers.
InitOn(callers, now, file, list) ==
    /\ products = <<>>
    /\ history_file = file
    /\ history = LoadHistory(history_file)
    /\ pc = [r \in Runners |-> "idle"]
    /\ idx = [r \in Runners |-> 0]
    /\ alerts = [r \in Runners |-> <<>>]
    /\ result = [r \in Runners |-> NoResult]
    /\ pending = [r \in Runners |-> NoPending]
    /\ started = [r \in Runners |-> 0]
    /\ clock = now
    /\ catalogue = list
    /\ active = callers
    /\ last = NoStep
    /\ crossed = {}
    /\ probe = NoProbe

InitFor(callers, now) ==
    \E n \in StoredLengths : \E list \in Catalogues :
        InitOn(callers, now, StoredFile(n), list)

Init == InitFor({"r1"}, 0)

\* add_product(product)
AddProduct ==
    /\ Len(products) < Len(catalogue)
    /\ products' = Append(products, catalogue[Len(products) + 1])
    /\ UNCHANGED <<history, history_file, pc, idx, alerts, result, pending, started,
                   clock, catalogue, active, last, crossed, probe>>

\* Mutant of NewAlerts: the list is kept from call to call.
NewAlertsKept(old) == old

\* Line 230: alerts = []
NewAlerts(old) == <<>>

\* check_all up to its first await: alerts = [], then the for loop reaches
\* scrape_price, or (empty list) _save_history and return.
CheckAllBegin(r) ==
    /\ r \in active
    /\ pc[r] = "idle"
    /\ clock < MaxObs
    /\ alerts' = [alerts EXCEPT ![r] = NewAlerts(@)]
    /\ started' = [started EXCEPT ![r] = clock]
    /\ IF products = <<>>
       THEN /\ history_file' = SaveHistory(history)
            /\ result' = [result EXCEPT ![r] = Returned(NewAlerts(alerts[r]))]
            /\ UNCHANGED <<pc, idx>>
       ELSE /\ pc' = [pc EXCEPT ![r] = "scraping"]
            /\ idx' = [idx EXCEPT ![r] = 1]
            /\ result' = [result EXCEPT ![r] = NoResult]
            /\ UNCHANGED history_file
    /\ UNCHANGED <<products, history, pending, clock, catalogue, active, last,
                   crossed, probe>>

\* Mutant of ScrapePrice: a failed parse is recorded with the price 0.
ScrapePricePlaceholder(product, text, now) ==
    LET parsed == ParsePrice(text)
        price == IF parsed[1] = None THEN 0 ELSE Val(parsed[1])
    IN  Some(PriceRecord(product.url, product.name, price, parsed[2], now))

\* Mutant of ScrapePrice: line 138 reads `if price is not None:`.
ScrapePriceIsNotNone(product, text, now) ==
    LET parsed == ParsePrice(text)
        price == parsed[1]
    IN  IF price # None
        THEN Some(PriceRecord(product.url, product.name, Val(price), parsed[2], now))
        ELSE None

\* scrape_price from the text of the price element on (lines 135-151): a
\* PriceRecord when the parsed price is truthy, None otherwise.
ScrapePrice(product, text, now) ==
    LET parsed == ParsePrice(text)
        price == parsed[1]
    IN  IF Truthy(price)
        THEN Some(PriceRecord(product.url, product.name, Val(price), parsed[2], now))
        ELSE None

\* Mutant of RecordObservation: the key is created before the record is tested.
RecordObservationSetDefault(h, product, record) ==
    IF record # None
    THEN AppendRecord(h, ProductKey(product.url), Val(record))
    ELSE [k \in DOMAIN h \cup {ProductKey(product.url)} |->
             DictGet(h, ProductKey(product.url))]

\* Mutant of RecordObservation: the history is read again from the file
\* before the record is appended.
RecordObservationReload(h, product, record) ==
    IF record # None
    THEN AppendRecord(LoadHistory(history_file), ProductKey(product.url), Val(record))
    ELSE h

\* Mutant of RecordObservation: the record is appended twice.
RecordObservationTwice(h, product, record) ==
    IF record # None
    THEN AppendRecord(AppendRecord(h, ProductKey(product.url), Val(record)),
                      ProductKey(product.url), Val(record))
    ELSE h

\* Lines 242-249 of check_all: the history after the product's step.
RecordObservation(h, product, record) ==
    IF record # None
    THEN AppendRecord(h, ProductKey(product.url), Val(record))
    ELSE h

\* Mutant of CollectAlert: the rules are evaluated after the record is
\* appended (lines 237-240 after lines 242-249).
CollectAlertAfterAppend(h, collected, product, record) ==
    IF record # None
    THEN LET alert == CheckAlertConditions(RecordObservation(h, product, record),
                                           product, Val(record))
         IN  IF alert # None THEN Append(collected, Val(alert)) ELSE collected
    ELSE collected

\* Mutant of CollectAlert: the rules are evaluated against the history as the
\* file holds it, which is the history at the last save.
CollectAlertFromFile(h, collected, product, record) ==
    IF record # None
    THEN LET alert == CheckAlertConditions(LoadHistory(history_file), product,
                                           Val(record))
         IN  IF alert # None THEN Append(collected, Val(alert)) ELSE collected
    ELSE collected

\* Lines 236-240 of check_all: the alerts list after the product's step.
CollectAlert(h, collected, product, record) ==
    IF record # None
    THEN LET alert == CheckAlertConditions(h, product, Val(record))
         IN  IF alert # None THEN Append(collected, Val(alert)) ELSE collected
    ELSE collected

\* Mutant of ProductStep: asyncio.sleep is inside `if record:`, so after a
\* failed observation the loop goes on at once.
ProductStepSleepInIf(r, text, record) ==
    LET product == products[idx[r]]
        prior == DictGet(history, ProductKey(product.url))
        alert == IF record # None
                 THEN CheckAlertConditions(history, product, Val(record))
                 ELSE None
    IN  /\ alerts' = [alerts EXCEPT ![r] = CollectAlert(history, @, product, record)]
        /\ history' = RecordObservation(history, product, record)
        /\ last' = Step(r, IF record # None THEN "recorded" ELSE "skipped",
                        product, text, prior, record, alert)
        /\ crossed' = CrossedAfter(crossed, product, record, alert)
        /\ pending' = [pending EXCEPT ![r] = NoPending]
        /\ IF record # None
           THEN /\ pc' = [pc EXCEPT ![r] = "sleeping"]
                /\ UNCHANGED <<history_file, idx, result>>
           ELSE IF idx[r] < Len(products)
           THEN /\ pc' = [pc EXCEPT ![r] = "scraping"]
                /\ idx' = [idx EXCEPT ![r] = @ + 1]
                /\ UNCHANGED <<history_file, result>>
           ELSE /\ pc' = [pc EXCEPT ![r] = "idle"]
                /\ history_file' = SaveHistory(history)
                /\ result' = [result EXCEPT ![r] = Returned(alerts[r])]
                /\ UNCHANGED idx
        /\ UNCHANGED <<products, started, clock, catalogue, active, probe>>

\* Lines 235-252 of check_all for one product, from the return of
\* scrape_price to asyncio.sleep; no await in between.
ProductStep(r, text, record) ==
    LET product == products[idx[r]]
        prior == DictGet(history, ProductKey(product.url))
        alert == IF record # None
                 THEN CheckAlertConditions(history, product, Val(record))
                 ELSE None
    IN  /\ alerts' = [alerts EXCEPT ![r] = CollectAlert(history, @, product, record)]
        /\ history' = RecordObservation(history, product, record)
        /\ last' = Step(r, IF record # None THEN "recorded" ELSE "skipped",
                        product, text, prior, record, alert)
        /\ crossed' = CrossedAfter(crossed, product, record, alert)
        /\ pc' = [pc EXCEPT ![r] = "sleeping"]
        /\ pending' = [pending EXCEPT ![r] = NoPending]
        /\ UNCHANGED <<products, history_file, idx, result, started, clock,
                       catalogue, active, probe>>

\* scrape_price up to the finally clause (lines 113-145): the result is
\* decided, await browser.close() is still to come.
ScrapeHold(r, text, record) ==
    /\ pending' = [pending EXCEPT ![r] = [text |-> text, record |-> record]]
    /\ clock' = clock + 1
    /\ pc' = [pc EXCEPT ![r] = "closing"]
    /\ UNCHANGED <<products, history, history_file, idx, alerts, result, started,
                   catalogue, active, last, crossed, probe>>

\* The page loads and the price element has a text: scrape_price parses it
\* and, for a truthy price, builds the PriceRecord with datetime.now().
ScrapeText(r) ==
    /\ r \in active
    /\ pc[r] = "scraping"
    /\ \E text \in PageTexts(products[idx[r]].url) :
           ScrapeHold(r, Some(text), ScrapePrice(products[idx[r]], text, clock + 1))

\* scrape_price has no text to parse: page.goto, wait_for_load_state or
\* query_selector raised an Exception (caught at line 146), the element is
\* missing, or its text is None (AttributeError in _parse_price, caught).
ScrapeFail(r) ==
    /\ r \in active
    /\ pc[r] = "scraping"
    /\ ScrapeHold(r, None, None)

\* browser.close() is done (line 149): scrape_price returns and check_all
\* runs the product's step up to asyncio.sleep.
ScrapeReturn(r) ==
    /\ r \in active
    /\ pc[r] = "closing"
    /\ ProductStep(r, pending[r].text, pending[r].record)

\* An exception leaves scrape_price: raised outside the try block (lines
\* 113-126: async_playwright, launch, new_context, add_init_script, new_page),
\* by browser.close() in the finally clause, or a cancellation.  It leaves
\* check_all too: no _save_history, no return value.
ScrapeRaise(r) ==
    /\ r \in active
    /\ pc[r] \in {"scraping", "closing"}
    /\ last' = Step(r, "raised", products[idx[r]], None,
                    DictGet(history, ProductKey(products[idx[r]].url)), None, None)
    /\ clock' = IF pc[r] = "scraping" THEN clock + 1 ELSE clock
    /\ pc' = [pc EXCEPT ![r] = "idle"]
    /\ pending' = [pending EXCEPT ![r] = NoPending]
    /\ result' = [result EXCEPT ![r] = Raised]
    /\ UNCHANGED <<products, history, history_file, idx, alerts, started, catalogue,
                   active, crossed, probe>>

\* Mutant of Wake: _save_history is called in the loop, after every product.
WakeSaveEach(r) ==
    /\ r \in active
    /\ pc[r] = "sleeping"
    /\ history_file' = SaveHistory(history)
    /\ IF idx[r] < Len(products)
       THEN /\ idx' = [idx EXCEPT ![r] = @ + 1]
            /\ pc' = [pc EXCEPT ![r] = "scraping"]
            /\ UNCHANGED result
       ELSE /\ result' = [result EXCEPT ![r] = Returned(alerts[r])]
            /\ pc' = [pc EXCEPT ![r] = "idle"]
            /\ UNCHANGED idx
    /\ UNCHANGED <<products, history, alerts, pending, started, clock, catalogue,
                   active, last, crossed, probe>>

\* asyncio.sleep(2) is over: the for loop takes the next product, or the loop
\* ends, _save_history runs and check_all returns alerts (lines 254-255).
Wake(r) ==
    /\ r \in active
    /\ pc[r] = "sleeping"
    /\ IF idx[r] < Len(products)
       THEN /\ idx' = [idx EXCEPT ![r] = @ + 1]
            /\ pc' = [pc EXCEPT ![r] = "scraping"]
            /\ UNCHANGED <<history_file, result>>
       ELSE /\ history_file' = SaveHistory(history)
            /\ result' = [result EXCEPT ![r] = Returned(alerts[r])]
            /\ pc' = [pc EXCEPT ![r] = "idle"]
            /\ UNCHANGED idx
    /\ UNCHANGED <<products, history, alerts, pending, started, clock, catalogue,
                   active, last, crossed, probe>>

\* The call is cancelled while it waits in asyncio.sleep (line 252):
\* CancelledError leaves check_all, no _save_history, no return value.
SleepCancelled(r) ==
    /\ r \in active
    /\ pc[r] = "sleeping"
    /\ pc' = [pc EXCEPT ![r] = "idle"]
    /\ result' = [result EXCEPT ![r] = Raised]
    /\ UNCHANGED <<products, history, history_file, idx, alerts, pending, started,
                   clock, catalogue, active, last, crossed, probe>>

Next ==
    \/ AddProduct
    \/ \E r \in Runners : CheckAllBegin(r)
    \/ \E r \in Runners : ScrapeText(r)
    \/ \E r \in Runners : ScrapeFail(r)
    \/ \E r \in Runners : ScrapeReturn(r)
    \/ \E r \in Runners : ScrapeRaise(r)
    \/ \E r \in Runners : Wake(r)
    \/ \E r \in Runners : SleepCancelled(r)

Spec == Init /\ [][Next]_vars

\* Two check_all calls on one PriceMonitor, as tasks of one event loop: they
\* interleave at the awaits (scrape_price, browser.close, asyncio.sleep).
\* The operator has one product, or two entries for the same page.
ConcCatalogues == { <<ProductTAny>>, <<ProductAny, ProductT>> }

\* Each call makes one cycle: both begin before the first observation is made.
ConcInit == InitFor({"r1", "r2"}, MaxObs - 1) /\ catalogue \in ConcCatalogues

ConcSpec == ConcInit /\ [][Next]_vars

\* A PriceMonitor whose history file holds the records of a page that is no
\* longer in the product list: the operator adds the other page only.
FrameInit ==
    \E n \in StoredLengths \ {0} : InitOn({"r1"}, 0, StoredFile(n), <<ProductB>>)

FrameSpec == FrameInit /\ [][Next]_vars

\* Mutant of StoreAfterGet: the lookup is made with setdefault(key, []).
StoreAfterGetSetDefault(h, url) ==
    [k \in DOMAIN h \cup {ProductKey(url)} |-> DictGet(h, k)]

\* self.history after get_price_history(url): dict.get changes nothing.
StoreAfterGet(h, url) == h

\* get_price_history(url), called between the steps of the cycles.
GetPriceHistory(url) ==
    /\ probe' = [NoProbe EXCEPT !.op = "get_price_history", !.url = url,
                                !.value = DictGet(history, ProductKey(url))]
    /\ history' = StoreAfterGet(history, url)
    /\ UNCHANGED <<products, history_file, pc, idx, alerts, result, pending,
                   started, clock, catalogue, active, last, crossed>>

LookupUrls == {UrlA, UrlB, UrlC}

\* One cycle over two pages, with lookups in between.
LookupInit == InitFor({"r1"}, MaxObs - 1) /\ catalogue = <<ProductT, ProductB>>

LookupNext == Next \/ \E url \in LookupUrls : GetPriceHistory(url)

LookupSpec == LookupInit /\ [][LookupNext]_vars

\* _parse_price called on its own, once, on a text of the bounded set.
MaxTextLen == 4

ParseAlphabet == {"U20AC", "U00A3", "U00A5", "U00C2", "$", "1", "5", ",", ".", " "}

\* The texts of section 8 of the specification, and the euro sign as the
\* source file spells it.
ExampleTexts ==
    { <<"$", "1", ",", "2", "3", "4", ".", "5", "6">>,
      <<"U20AC", "9", "9", ",", "0", "0">>,
      <<"9", "9", ",", "0", "0", " ", "U20AC">>,
      <<"U00E2", "U201A", "U00AC", "9", "9">>,
      <<"U00A5", "5", " ", "U00E2", "U201A", "U00AC">> }

ParseTexts ==
    UNION {[1..n -> ParseAlphabet] : n \in 0..MaxTextLen} \cup ExampleTexts

ParsePriceCall(text) ==
    /\ probe.op = "none"
    /\ probe' = [NoProbe EXCEPT !.op = "_parse_price", !.text = text,
                                !.price = ParsePrice(text)[1],
                                !.currency = ParsePrice(text)[2]]
    /\ UNCHANGED <<products, history, history_file, pc, idx, alerts, result,
                   pending, started, clock, catalogue, active, last, crossed>>

ParseInit == InitFor({}, 0) /\ catalogue = <<ProductTAny>> /\ history_file = None

ParseNext == \E text \in ParseTexts : ParsePriceCall(text)

ParseSpec == ParseInit /\ [][ParseNext]_vars

\* _check_alert_conditions called on its own, once, on a PriceMonitor whose
\* history file holds one record of the page (or on one without a file).
\* The file is whatever the data directory holds: the prior price may be any
\* number, also zero or negative.  Prices are in hundredths.
EvalPriors == {-100, 0, 1000, 2499, 2999, 5000}

EvalFiles ==
    {None} \cup
    { SaveHistory([k \in {ProductKey(UrlA)} |->
                      <<PriceRecord(UrlA, "Widget", p, "USD", 0)>>]) : p \in EvalPriors }

\* Product(...) with every combination of the rule fields.
EvalProducts ==
    { Product(UrlA, "Widget", target, any, thr) :
        target \in {None, TargetZero, TargetA}, any \in BOOLEAN, thr \in {-5, 0, 5, 50} }

\* The PriceRecord scrape_price hands over: a positive price.
EvalRecords ==
    { PriceRecord(UrlA, "Widget", price, "USD", 1) :
        price \in {1000, 1001, 2000, 2499, 2999, 4500, 5000} }

CheckAlertConditionsCall(product, current) ==
    /\ probe.op = "none"
    /\ probe' = [NoProbe EXCEPT !.op = "_check_alert_conditions",
                                !.product = Some(product),
                                !.record = Some(current),
                                !.value = CheckAlertConditions(history, product, current)]
    /\ UNCHANGED <<products, history, history_file, pc, idx, alerts, result,
                   pending, started, clock, catalogue, active, last, crossed>>

EvalInit == \E file \in EvalFiles : InitOn({}, 0, file, <<>>)

EvalNext ==
    \E product \in EvalProducts : \E current \in EvalRecords :
        CheckAlertConditionsCall(product, current)

EvalSpec == EvalInit /\ [][EvalNext]_vars

(***************************************************************************)
(* Properties                                                              *)
(***************************************************************************)

\* The last step appended a record.
Recorded == last.outcome = "recorded"

LastProduct == Val(last.product)
LastKey == ProductKey(LastProduct.url)
LastRecord == Val(last.record)

\* The last step was evaluated against an existing prior record.
Evaluated == Recorded /\ last.prior # <<>>
PriorPrice == last.prior[Len(last.prior)].price

\* The kind of the alert of the last step, NoType when there is none.
LastKind == IF last.alert = None THEN NoType ELSE Val(last.alert).alert_type

\* The step being taken ends a product's observation: scrape_price returns
\* to check_all, or an exception leaves it.
StepTaken ==
    \E r \in Runners : pc[r] \in {"scraping", "closing"} /\ pc'[r] \in {"sleeping", "idle"}

\* The three rules as the specification words them, on the last step.
TargetRule ==
    /\ LastProduct.target_price # None
    /\ LastRecord.price <= Val(LastProduct.target_price)
    /\ PriorPrice > Val(LastProduct.target_price)

LastChange == ChangePercent(LastRecord.price, PriorPrice)

DropRule == FracLeq(LastChange, FracOfInt(-LastProduct.alert_threshold_percent))

ChangeRule == LastProduct.alert_on_any_change /\ FracLt(<<1, 100>>, FracAbs(LastChange))

\* C1: every product's history holds at most 100 records in every reachable
\* state.
C1_HistoryBounded ==
    \A k \in DOMAIN history : Len(history[k]) <= HistoryCap

\* A record was appended to a full history and the history is full again.
C1_Witness ==
    /\ Recorded
    /\ Len(last.prior) = HistoryCap
    /\ Len(history[LastKey]) = HistoryCap

\* C2: eviction is FIFO and order-preserving.  A step that appends a record
\* to a history of 100 records leaves the previous records 2..100 in their
\* order followed by the new record; with fewer than 100 it leaves the previous
\* history followed by the new record; and no step changes a history otherwise.
C2_FifoOrder ==
    [][\A k \in DOMAIN history' :
          LET old == DictGet(history, k)
              new == history'[k]
          IN  IF /\ StepTaken
                 /\ last'.outcome = "recorded"
                 /\ k = ProductKey(Val(last'.product).url)
              THEN /\ Len(old) <= HistoryCap
                   /\ new = (IF Len(old) = HistoryCap THEN SubSeq(old, 2, HistoryCap)
                             ELSE old) \o <<Val(last'.record)>>
              ELSE k \in DOMAIN history /\ new = old]_vars

\* The oldest record of a full history was evicted: the history now starts
\* with what was the second record and ends with the new one.
C2_Witness ==
    /\ Recorded
    /\ Len(last.prior) = HistoryCap
    /\ history[LastKey][1] = last.prior[2]
    /\ history[LastKey][HistoryCap] = LastRecord
    /\ last.prior[1] # last.prior[2]

\* C3: a product's first successful observation raises no alert and seeds the
\* history with its record, whatever the product's rules are.
C3_FirstObservationSilent ==
    (Recorded /\ last.prior = <<>>) =>
        /\ last.alert = None
        /\ history[LastKey] = <<LastRecord>>

\* A first observation at or below the target of a product with a target and
\* the any-change flag.
C3_Witness ==
    /\ Recorded
    /\ last.prior = <<>>
    /\ LastProduct.target_price = TargetA
    /\ LastProduct.alert_on_any_change
    /\ LastRecord.price <= Val(TargetA)

\* C4: rule priority.  With a prior record, the alert kind is that of the first
\* matching rule in the order target_reached, drop, change, each rule being
\* evaluated whenever every earlier rule did not match.
C4_RulePriority ==
    Evaluated =>
        LastKind = (IF TargetRule THEN "target_reached"
                    ELSE IF DropRule THEN "drop"
                    ELSE IF ChangeRule THEN "change"
                    ELSE NoType)

\* C5: with a prior record, a target that is set, a current price at or below
\* it and a prior price above it, the alert is target_reached.
C5_TargetReached ==
    (Evaluated /\ TargetRule) =>
        /\ last.alert # None
        /\ Val(last.alert).alert_type = "target_reached"

\* Target 25.00, prior 29.99, current 24.99.
C5_Witness ==
    /\ Evaluated
    /\ LastProduct.target_price = Some(2500)
    /\ PriorPrice = 2999
    /\ LastRecord.price = 2499
    /\ LastKind = "target_reached"

\* C6: with a prior record, the target rule not matching and a change of at
\* most minus the threshold, the alert is drop.
C6_SignificantDrop ==
    (Evaluated /\ ~TargetRule /\ DropRule) => LastKind = "drop"

\* C7: with a prior record, neither the target rule nor the drop rule
\* matching, the any-change flag set and a change above 0.01 percent in
\* absolute value, the alert is change.
C7_AnyChange ==
    (Evaluated /\ ~TargetRule /\ ~DropRule /\ ChangeRule) => LastKind = "change"

\* C8: target_reached is a one-time crossing signal.  A step raises
\* target_reached for a product key and target only if, since the last
\* target_reached alert for them, a record above the target was appended.
C8_OneTimeCrossing ==
    [][(/\ StepTaken
        /\ last'.outcome = "recorded"
        /\ last'.alert # None
        /\ Val(last'.alert).alert_type = "target_reached")
       => <<ProductKey(Val(last'.product).url), Val(Val(last'.product).target_price)>>
              \notin crossed]_vars

\* A second target_reached alert of the only product: the record of the first
\* crossing of this run is in the history, and the prior record is above the
\* target.
C8_Witness ==
    /\ Evaluated
    /\ catalogue = <<ProductTAny>>
    /\ LastKind = "target_reached"
    /\ PriorPrice > Val(LastProduct.target_price)
    /\ \E i \in 1..(Len(history[LastKey]) - 2) :
          /\ history[LastKey][i].timestamp > 0
          /\ history[LastKey][i].price <= Val(LastProduct.target_price)
          /\ i > 1
          /\ history[LastKey][i - 1].price > Val(LastProduct.target_price)

\* C9: a failed observation leaves the whole history mapping unchanged (no key
\* created, no record appended, none evicted) and adds no alert.
C9_FailedObservationFrame ==
    [][(StepTaken /\ last'.outcome \in {"skipped", "raised"})
       => (history' = history /\ alerts' = alerts)]_vars

\* A price text without a number was observed for a product without history.
C9_Witness ==
    /\ last.outcome = "skipped"
    /\ last.text = Some(TextNoNumber)
    /\ LastKey \notin DOMAIN history

\* C10: every record of a history has a numeric price, and an observation
\* whose text yields no price is skipped and leaves the product's history as
\* it was.
C10_NoNullPrice ==
    /\ \A k \in DOMAIN history :
          \A i \in 1..Len(history[k]) : history[k][i].price \in Int
    /\ (last.text # None /\ ParsePrice(Val(last.text))[1] = None) =>
          /\ last.outcome = "skipped"
          /\ DictGet(history, LastKey) = last.prior

\* A failed parse after a successful observation of the same product.
C10_Witness ==
    /\ last.outcome = "skipped"
    /\ last.text = Some(TextNoNumber)
    /\ last.prior # <<>>
    /\ last.prior[Len(last.prior)].timestamp > 0

\* C11: failure isolation.  Whatever fails in the observation of one product,
\* the product is skipped and the cycle goes on: no check_all call ends with
\* an exception.
C11_FailureIsolation ==
    \A r \in active : result[r].status # "raised"

\* The alerts of list belong to the cycle that call r began last: alert i was
\* made from the observation of one product entry of that cycle (its record
\* was stamped after the cycle began, and the entry at that position has its
\* URL and name), and the alerts come in the order of the product list, at
\* most one per entry.
OwnAlerts(r, list) ==
    /\ \A i \in 1..Len(list) :
          LET at == list[i].timestamp - started[r]
          IN  /\ at \in 1..Len(products)
              /\ list[i].url = products[at].url
              /\ list[i].product = products[at].name
    /\ \A i, j \in 1..Len(list) : i < j => list[i].timestamp < list[j].timestamp

\* C12: a cycle collects and returns exactly the alerts of its own
\* observations, at most one per product entry, in the order of the product
\* list, and none of an earlier cycle.
C12_OwnAlertsOnly ==
    \A r \in active :
        /\ OwnAlerts(r, alerts[r])
        /\ result[r].status = "returned" => result[r].value = alerts[r]

\* A later cycle returned two alerts, one for each of its two entries.
C12_Witness ==
    /\ result["r1"].status = "returned"
    /\ started["r1"] > 0
    /\ Len(result["r1"].value) = 2
    /\ Len(products) = 2

\* C13: per-product atomicity with two concurrent check_all calls.  The step
\* that records an observation reads the last record, evaluates and appends
\* against the history as it is at that moment: the history it leaves is the
\* history just before the step with the record appended (and the oldest
\* record evicted at 100), so no append of the other call is lost; the alert it
\* adds carries the price of the record that was last just before the step;
\* and no history exceeds 100 records.
C13_AtomicStep ==
    [][(StepTaken /\ last'.outcome = "recorded") =>
          LET r == last'.runner
              k == ProductKey(Val(last'.product).url)
              old == DictGet(history, k)
              rec == Val(last'.record)
          IN  /\ history'[k] = (IF Len(old) >= HistoryCap
                                THEN SubSeq(old, Len(old) - HistoryCap + 2, Len(old))
                                ELSE old) \o <<rec>>
              /\ \A j \in DOMAIN history : j # k => history'[j] = history[j]
              /\ Len(history'[k]) <= HistoryCap
              /\ alerts'[r] # alerts[r] =>
                    /\ old # <<>>
                    /\ alerts'[r] = Append(alerts[r], alerts'[r][Len(alerts'[r])])
                    /\ alerts'[r][Len(alerts'[r])].old_price = old[Len(old)].price
                    /\ alerts'[r][Len(alerts'[r])].new_price = rec.price]_vars

\* A call recorded its observation after the other call had recorded a later
\* observation of the same product while the first one's browser was closing,
\* and its alert was computed against that record.
C13_Witness ==
    /\ Recorded
    /\ last.prior # <<>>
    /\ last.prior[Len(last.prior)].timestamp > LastRecord.timestamp
    /\ last.alert # None
    /\ Val(last.alert).old_price = PriorPrice
    /\ Len(history[LastKey]) = HistoryCap

\* C14: looking up the history of a product that was never recorded returns
\* the empty list and leaves the store as it is: no entry is created.
C14_UnknownProductLookup ==
    [][(/\ probe' # probe
        /\ probe'.op = "get_price_history"
        /\ ProductKey(probe'.url) \notin DOMAIN history)
       => (probe'.value = <<>> /\ history' = history)]_vars

\* The store holds records of one product and the lookup of another one, never
\* recorded, returned the empty list.
C14_Witness ==
    /\ probe.op = "get_price_history"
    /\ probe.url = UrlC
    /\ probe.value = <<>>
    /\ DOMAIN history # {}
    /\ ProductKey(UrlC) \notin DOMAIN history

\* C17: with a positive threshold, no target and the any-change flag off, an
\* observation at the price of the prior record raises no alert.
C17_UnchangedPriceSilent ==
    (/\ Evaluated
     /\ LastProduct.alert_threshold_percent > 0
     /\ LastProduct.target_price = None
     /\ ~LastProduct.alert_on_any_change
     /\ LastRecord.price = PriorPrice)
    => /\ last.alert = None
       /\ \A i \in 1..Len(alerts[last.runner]) :
             alerts[last.runner][i].timestamp # LastRecord.timestamp

\* Prior 29.99, current 29.99, threshold 5, no target, flag off.
C17_Witness ==
    /\ Evaluated
    /\ LastProduct = ProductDrop
    /\ LastRecord.price = PriorPrice
    /\ idx[last.runner] = 1

Parsed == probe.op = "_parse_price"

\* The currency the precedence euro, pound, yen, default USD gives a text.
SymbolCurrency(text) ==
    LET chars == {text[i] : i \in DOMAIN text}
    IN  IF "U20AC" \in chars THEN "EUR"
        ELSE IF "U00A3" \in chars THEN "GBP"
        ELSE IF "U00A5" \in chars THEN "JPY"
        ELSE "USD"

\* C18: currency detection.  A text with the euro sign resolves to EUR wherever
\* the sign stands and whatever else the text holds, one with the pound sign
\* and no euro sign to GBP, one with the yen sign and neither of these to JPY,
\* and any other text to USD.
C18_CurrencyPrecedence ==
    Parsed => probe.currency = SymbolCurrency(probe.text)

\* The text without its thousands separators.
Unseparated(text) == SelectSeq(text, LAMBDA c : c # ",")

\* The value, in hundredths, of the digits whole followed by the digits frac.
TokenValue(whole, frac) ==
    DecValue(whole) * 100
        + (IF Len(frac) >= 1 THEN DigitVal(frac[1]) * 10 ELSE 0)
        + (IF Len(frac) >= 2 THEN DigitVal(frac[2]) ELSE 0)

IsDigits(t, i, j) == \A x \in i..j : t[x] \in Digits
NotDigit(t, i) == i < 1 \/ i > Len(t) \/ t[i] \notin Digits

\* price is the value of the first decimal-number token of t: the first run
\* of digits of t, with the point and the digits that follow it, if any.
FirstTokenIs(t, price) ==
    \E i \in 1..Len(t) : \E a \in i..Len(t) :
        /\ \A x \in 1..(i - 1) : t[x] \notin Digits
        /\ IsDigits(t, i, a)
        /\ NotDigit(t, a + 1)
        /\ IF a < Len(t) /\ t[a + 1] = "."
           THEN \E b \in (a + 1)..Len(t) :
                   /\ IsDigits(t, a + 2, b)
                   /\ NotDigit(t, b + 1)
                   /\ price = TokenValue(SubSeq(t, i, a), SubSeq(t, a + 2, b))
           ELSE price = TokenValue(SubSeq(t, i, a), <<>>)

\* C19: numeric extraction.  With the thousands separators stripped, the price
\* is the value of the first decimal-number token of the text; a text without
\* such a token has no price, and its currency is the one the detection gives
\* the same text when a number follows it.
C19_NumericExtraction ==
    Parsed =>
        LET t == Unseparated(probe.text)
        IN  IF \E i \in 1..Len(t) : t[i] \in Digits
            THEN probe.price # None /\ FirstTokenIs(t, Val(probe.price))
            ELSE /\ probe.price = None
                 /\ probe.currency = ParsePrice(probe.text \o <<"1">>)[2]
                 /\ probe.currency \in {"EUR", "GBP", "JPY", "USD"}

\* The text $1,234.56 gave the price 1234.56 and the currency USD.
C19_Witness ==
    /\ Parsed
    /\ probe.text = <<"$", "1", ",", "2", "3", "4", ".", "5", "6">>
    /\ probe.price = Some(123456)
    /\ probe.currency = "USD"

\* C20: persistence round trip.  Once check_all has returned, the file holds
\* the whole in-memory mapping: what a PriceMonitor constructed now on the same
\* data directory loads is the mapping in memory, key by key, with the same
\* records in the same order.
C20_PersistenceRoundTrip ==
    \A r \in active :
        (result[r].status = "returned" /\ pc[r] = "idle")
            => /\ history_file # None
               /\ LoadHistory(history_file) = history
               /\ \A k \in DOMAIN history :
                     /\ k \in DOMAIN LoadHistory(history_file)
                     /\ LoadHistory(history_file)[k] = history[k]

\* A call that recorded an observation for its second entry has returned; the
\* file holds two keys and the new record is the last of its sequence.
C20_Witness ==
    /\ result["r1"].status = "returned"
    /\ pc["r1"] = "idle"
    /\ Recorded
    /\ Cardinality(DOMAIN history) = 2
    /\ history_file # None
    /\ LET loaded == LoadHistory(history_file)
       IN  /\ LastKey \in DOMAIN loaded
           /\ loaded[LastKey][Len(loaded[LastKey])] = LastRecord

\* C21: within a product's step the prior record is read and the rules are
\* evaluated before the new record is appended.  An alert the step adds carries
\* as old price the price of the record that was last before the step, and as
\* new price that of the record the step appends; and an observation at or
\* below the target after a last record above it does add an alert.
C21_EvaluateBeforeAppend ==
    [][(StepTaken /\ last'.outcome = "recorded") =>
          LET r == last'.runner
              product == Val(last'.product)
              old == DictGet(history, ProductKey(product.url))
              rec == Val(last'.record)
              added == SubSeq(alerts'[r], Len(alerts[r]) + 1, Len(alerts'[r]))
          IN  /\ Len(added) <= 1
              /\ history'[ProductKey(product.url)][Len(history'[ProductKey(product.url)])] = rec
              /\ added # <<>> =>
                    /\ old # <<>>
                    /\ added[1].old_price = old[Len(old)].price
                    /\ added[1].new_price = rec.price
                    /\ added[1].timestamp = rec.timestamp
              /\ (/\ old # <<>>
                  /\ product.target_price # None
                  /\ old[Len(old)].price > Val(product.target_price)
                  /\ rec.price <= Val(product.target_price)) => added # <<>>]_vars

\* An alert whose old price is the price of the record before the one just
\* appended, which is now the last of the history, and differs from it.
C21_Witness ==
    /\ Evaluated
    /\ alerts[last.runner] # <<>>
    /\ LET list == alerts[last.runner]
           hist == history[LastKey]
       IN  /\ list[Len(list)].timestamp = LastRecord.timestamp
           /\ hist[Len(hist)] = LastRecord
           /\ list[Len(list)].old_price = hist[Len(hist) - 1].price
           /\ list[Len(list)].old_price # LastRecord.price

\* A direct evaluation was made against a history with a last record.
Called == probe.op = "_check_alert_conditions"
CalledProduct == Val(probe.product)
CalledRecord == Val(probe.record)
CalledHistory == DictGet(history, ProductKey(CalledProduct.url))
CalledPrior == CalledHistory[Len(CalledHistory)].price
CalledAlert == Val(probe.value)

\* The fraction f is the change, in percent, from prior to current, taken as
\* 0 for a prior that is not positive.
IsChange(f, current, prior) ==
    /\ f[2] > 0
    /\ IF prior > 0
       THEN f[1] * prior = (current - prior) * 100 * f[2]
       ELSE f[1] = 0

\* C22: division guard.  Against a prior record whose price is not positive
\* the evaluation ends without a division by zero and its change is 0; against
\* a positive prior price the change is (current - prior) / prior * 100.
C22_DivisionGuard ==
    (Called /\ CalledHistory # <<>>) =>
        /\ Len(probe.value) <= 1
        /\ probe.value # None =>
              IsChange(CalledAlert.change_percent, CalledRecord.price, CalledPrior)

\* A prior price of 0 and a threshold of 0: the alert reports the change 0.
C22_Witness ==
    /\ Called
    /\ CalledHistory # <<>>
    /\ CalledPrior = 0
    /\ probe.value # None
    /\ CalledAlert.change_percent[1] = 0

\* C23: every alert, of any kind, carries the prior record's price as old
\* price, the current record's price as new price, the change computed from
\* these two prices, and the current record's timestamp.
C23_AlertPayload ==
    (Called /\ probe.value # None) =>
        /\ CalledHistory # <<>>
        /\ CalledAlert.alert_type \in {"target_reached", "drop", "change"}
        /\ CalledAlert.old_price = CalledPrior
        /\ CalledAlert.new_price = CalledRecord.price
        /\ CalledAlert.timestamp = CalledRecord.timestamp
        /\ CalledAlert.product = CalledProduct.name
        /\ CalledAlert.url = CalledProduct.url
        /\ IsChange(CalledAlert.change_percent, CalledAlert.new_price,
                    CalledAlert.old_price)

\* A target_reached alert from 29.99 to 24.99 reports the change of these two
\* prices, about -16.67 percent.
C23_Witness ==
    /\ Called
    /\ probe.value # None
    /\ CalledAlert.alert_type = "target_reached"
    /\ CalledAlert.old_price = 2999
    /\ CalledAlert.new_price = 2499
    /\ CalledAlert.change_percent = <<-50000, 2999>>

\* C26: every drop alert reports a new price strictly below its old price,
\* whatever the product's threshold and the prior record's price are.
C26_DropIsLower ==
    (Called /\ probe.value # None /\ CalledAlert.alert_type = "drop")
        => CalledAlert.new_price < CalledAlert.old_price

\* C24: a product's history comes into existence only with the product's
\* first recorded observation, as that one record; afterwards a step either
\* leaves it as it is or appends one record to it, the oldest record being the
\* only one that may leave; and no key ever leaves the store.
C24_AppendOnly ==
    [][/\ \A k \in DOMAIN history :
             /\ k \in DOMAIN history'
             /\ LET old == history[k]
                    new == history'[k]
                IN  \/ new = old
                    \/ /\ StepTaken
                       /\ last'.outcome = "recorded"
                       /\ k = ProductKey(Val(last'.product).url)
                       /\ new # <<>>
                       /\ \/ new = Append(old, new[Len(new)])
                          \/ old # <<>> /\ new = Append(Tail(old), new[Len(new)])
       /\ \A k \in DOMAIN history' \ DOMAIN history :
             /\ StepTaken
             /\ last'.outcome = "recorded"
             /\ k = ProductKey(Val(last'.product).url)
             /\ history'[k] = <<Val(last'.record)>>]_vars

\* The second product's history was created in this run and has grown to two
\* records, next to the stored history of the first product, which lost its
\* oldest record to an append.
C24_Witness ==
    /\ Recorded
    /\ LastKey = ProductKey(UrlB)
    /\ Len(history[LastKey]) = 2
    /\ last.prior = <<history[LastKey][1]>>
    /\ ProductKey(UrlA) \in DOMAIN history
    /\ Len(history[ProductKey(UrlA)]) = HistoryCap
    /\ history[ProductKey(UrlA)][HistoryCap].timestamp > 0

\* C25: pacing.  When scrape_price has returned, with a record or without
\* one, with an alert or without one, the call takes the delay before anything
\* else; and an observation request other than the first of its cycle starts
\* only out of the delay, the first one only at the call.
C25_Pacing ==
    [][\A r \in active :
          /\ (pc[r] = "closing" /\ pc'[r] # "closing" /\ result'[r].status # "raised")
                => pc'[r] = "sleeping"
          /\ (pc[r] # "scraping" /\ pc'[r] = "scraping")
                => IF idx'[r] = 1 THEN pc[r] = "idle"
                   ELSE pc[r] = "sleeping" /\ idx'[r] = idx[r] + 1
          /\ (pc[r] = "sleeping" /\ pc'[r] = "idle" /\ result'[r].status # "raised")
                => idx[r] = Len(products)]_vars

\* The second request of a cycle is out, after the delay that followed a
\* failed observation of the first product.
C25_Witness ==
    /\ pc["r1"] = "scraping"
    /\ idx["r1"] = 2
    /\ last.runner = "r1"
    /\ last.outcome = "skipped"
    /\ LastProduct = products[1]

\* C27: a successful observation appends exactly one record, as the new
\* tail, to the history of the observed product's key: the records before the
\* tail are the previous ones in their order (without the oldest at 100), and
\* every other key keeps its history; any other step leaves every history,
\* also that of a stored key that is not in the product list, as it is.
C27_SingleAppendFrame ==
    [][IF StepTaken /\ last'.outcome = "recorded"
       THEN LET k == ProductKey(Val(last'.product).url)
                old == DictGet(history, k)
                new == history'[k]
                kept == IF Len(old) < HistoryCap THEN Len(old) ELSE HistoryCap - 1
            IN  /\ DOMAIN history' = DOMAIN history \cup {k}
                /\ Len(new) = kept + 1
                /\ new[Len(new)] = Val(last'.record)
                /\ \A i \in 1..kept : new[i] = old[Len(old) - kept + i]
                /\ \A j \in DOMAIN history' \ {k} : history'[j] = history[j]
       ELSE history' = history]_vars

\* Two cycles recorded the listed page twice and returned; the stored history
\* of the other page, 100 records, is as it was loaded.
C27_Witness ==
    /\ result["r1"].status = "returned"
    /\ Recorded
    /\ products = <<ProductB>>
    /\ Len(history[ProductKey(UrlB)]) = 2
    /\ history[ProductKey(UrlA)] = [i \in 1..HistoryCap |-> StoredRecord(i, HistoryCap)]

\* C28: two product entries with the same URL share one history.  When the
\* second of two such entries records its observation in a cycle in which the
\* first one recorded its own, the two records are the last two of the one
\* history of that URL's key, in that order; the second entry's alert, if
\* any, has the first entry's record's price as old price; and that history,
\* holding both, has at most 100 records.
C28_SharedHistory ==
    \A r \in active :
        (/\ Recorded
         /\ last.runner = r
         /\ idx[r] = 2
         /\ products[1].url = products[2].url
         /\ \E i \in 1..Len(history[LastKey]) :
               history[LastKey][i].timestamp = LastRecord.timestamp - 1
         /\ LastRecord.timestamp - 1 > started[r])
        => LET hist == history[LastKey]
               n == Len(hist)
           IN  /\ LastKey = ProductKey(products[1].url)
               /\ n >= 2
               /\ n <= HistoryCap
               /\ hist[n] = LastRecord
               /\ hist[n].name = products[2].name
               /\ hist[n - 1].timestamp = LastRecord.timestamp - 1
               /\ hist[n - 1].name = products[1].name
               /\ \A i \in 1..Len(alerts[r]) :
                     alerts[r][i].timestamp = LastRecord.timestamp
                        => /\ alerts[r][i].old_price = hist[n - 1].price
                           /\ alerts[r][i].product = products[2].name

\* Two entries of different names for one page: the second one's alert was
\* made against the record the first one appended in the same cycle, and the
\* history is at its cap.
C28_Witness ==
    /\ Recorded
    /\ idx["r1"] = 2
    /\ products = <<ProductAny, ProductT>>
    /\ Len(history[LastKey]) = HistoryCap
    /\ history[LastKey][HistoryCap - 1].name = ProductAny.name
    /\ history[LastKey][HistoryCap - 1].timestamp = LastRecord.timestamp - 1
    /\ alerts["r1"] # <<>>
    /\ alerts["r1"][Len(alerts["r1"])].timestamp = LastRecord.timestamp
    /\ alerts["r1"][Len(alerts["r1"])].old_price = history[LastKey][HistoryCap - 1].price
    /\ alerts["r1"][Len(alerts["r1"])].old_price # last.prior[Len(last.prior) - 1].price

\* C29: every record of every history has a strictly positive price; a price
\* text that parses as exactly 0 is not recorded and leaves the history as it
\* was; and every evaluation is made against a positive prior price, so the
\* change it reports is the quotient, never the 0 of the division guard's
\* other branch.
C29_PositivePrices ==
    /\ \A k \in DOMAIN history :
          \A i \in 1..Len(history[k]) : history[k][i].price > 0
    /\ last.text = Some(TextZero) =>
          /\ last.outcome = "skipped"
          /\ last.record = None
          /\ DictGet(history, LastKey) = last.prior
    /\ Evaluated =>
          /\ PriorPrice > 0
          /\ \A i \in 1..Len(alerts[last.runner]) :
                alerts[last.runner][i].timestamp = LastRecord.timestamp
                   => /\ alerts[last.runner][i].change_percent[2] = PriorPrice
                      /\ alerts[last.runner][i].change_percent[1]
                            = (LastRecord.price - PriorPrice) * 100

\* The history began empty, holds a record of this run, and a text reading
\* $0.00 was then observed and skipped.
C29_Witness ==
    /\ last.text = Some(TextZero)
    /\ last.outcome = "skipped"
    /\ last.prior # <<>>
    /\ \A i \in 1..Len(last.prior) : last.prior[i].timestamp > 0
    /\ history[LastKey] = last.prior

\* C30: the history file is written only where a cycle ends, after the last
\* product, and then with the history in memory at that moment; a step that
\* aborts a cycle leaves the file as it was and the history in memory with the
\* records appended so far.
C30_SaveAtCycleEnd ==
    [][/\ history_file' # history_file =>
             /\ \E r \in active :
                   /\ result'[r].status = "returned"
                   /\ pc'[r] = "idle"
                   /\ \/ pc[r] = "sleeping" /\ idx[r] = Len(products)
                      \/ pc[r] = "idle" /\ products = <<>>
             /\ history' = history
             /\ history_file' # None
             /\ LoadHistory(history_file') = history
       /\ \A r \in active :
             (result'[r].status = "raised" /\ result[r].status # "raised")
                => /\ history_file' = history_file
                   /\ history' = history
       /\ \A r \in active :
             (pc[r] # "idle" /\ pc'[r] # "idle") => history_file' = history_file]_vars

\* A cycle was aborted at its second product after it had recorded the first
\* one: the record is in memory and not in the file.
C30_Witness ==
    /\ result["r1"].status = "raised"
    /\ pc["r1"] = "idle"
    /\ last.outcome = "raised"
    /\ idx["r1"] = 2
    /\ LET key == ProductKey(products[1].url)
           hist == DictGet(history, key)
       IN  /\ hist # <<>>
           /\ hist[Len(hist)].timestamp = started["r1"] + 1
           /\ DictGet(LoadHistory(history_file), key) # hist
           /\ \A i \in 1..Len(DictGet(LoadHistory(history_file), key)) :
                 DictGet(LoadHistory(history_file), key)[i].timestamp <= started["r1"]

====
